---- MODULE Spec2Model ----
(***************************************************************************)
(* Model of the invoice processor (src/processor-function/main.py): the    *)
(* field normalizers robust_date_parser and clean_numeric_fields, the      *)
(* entity reshaper transform_ai_response, the job parser                   *)
(* parse_pubsub_message and the orchestrator process_invoice with its      *)
(* three collaborators (Document AI, BigQuery, Cloud Storage).             *)
(*                                                                         *)
(* Text is modelled as a sequence of tokens.  A token is a record          *)
(* [k, v, w]: a maximal run of decimal digits is [k |-> "num"] with its    *)
(* value v and its number of digits w ("01" is Num(1, 2)); a full month    *)
(* name is [k |-> "month"] with v the month; every other token is one      *)
(* character, named by k ("/", "-", ",", ".", " ", "LF" for a newline,     *)
(* "x" for a letter that belongs to no number and no month name).          *)
(***************************************************************************)
EXTENDS Integers, Sequences, FiniteSets, TLC

VARIABLES
    pc,                \* where the run of process_invoice (or the call) stands
    cloud_event,       \* the argument of process_invoice
    svc,               \* what each collaborator answers in this delivery
    blob,              \* the entities the extraction service reads in the file
    file_info,         \* the result of parse_pubsub_message
    document,          \* the result of process_document_with_ai
    final_row,         \* the row being prepared
    insert_errors,     \* what insert_rows_json returned in this run
    exc,               \* the exception the run raised to its invoker
    table,             \* the rows of the warehouse table
    raw_bucket,        \* the paths of the blobs in the intake bucket
    processed_bucket,  \* the paths of the blobs in the archive bucket
    visited,           \* the pipeline states this run has reached
    calls,             \* the collaborator calls this run has made
    deliveries,        \* how often the trigger has delivered the notification
    date_string,       \* the argument of robust_date_parser
    date_result        \* its result

vars == <<pc, cloud_event, svc, blob, file_info, document, final_row, insert_errors,
          exc, table, raw_bucket, processed_bucket, visited, calls, deliveries,
          date_string, date_result>>

----------------------------------------------------------------------------
(* Tokens and Python values *)

Num(v, w) == [k |-> "num", v |-> v, w |-> w]

Sym(c) == [k |-> c, v |-> 0, w |-> 0]

Month(m) == [k |-> "month", v |-> m, w |-> 0]

IsSpace(tok) == tok.k \in {" ", "LF"}

\* A Python value: str, float, None or list, one record shape for all four.
\* A float is kept as <<sign, integer part, fraction digits, fraction width>>.
PyStr(s) == [t |-> "str", s |-> s, x |-> <<0, 0, 0, 0>>, items |-> <<>>]

PyFloat(x) == [t |-> "float", s |-> <<>>, x |-> x, items |-> <<>>]

PyNone == [t |-> "null", s |-> <<>>, x |-> <<0, 0, 0, 0>>, items |-> <<>>]

PyList(items) == [t |-> "list", s |-> <<>>, x |-> <<0, 0, 0, 0>>, items |-> items]

\* Python truthiness of a value (`if value`, `if not date_string`).
Truthy(value) ==
    CASE value.t = "str" -> value.s # <<>>
      [] value.t = "float" -> value.x[2] # 0 \/ value.x[3] # 0
      [] value.t = "list" -> value.items # <<>>
      [] OTHER -> FALSE

\* str.replace('\n', ' ')
ReplaceNewlines(s) == [i \in 1..Len(s) |-> IF s[i].k = "LF" THEN Sym(" ") ELSE s[i]]

----------------------------------------------------------------------------
(* robust_date_parser *)

IsLeap(y) == (y % 4 = 0 /\ y % 100 # 0) \/ y % 400 = 0

DaysInMonth(y, m) ==
    IF m = 2 THEN (IF IsLeap(y) THEN 29 ELSE 28)
    ELSE IF m \in {4, 6, 9, 11} THEN 30 ELSE 31

\* The layouts with the day-first slash layout moved before the month-first
\* one (the order a day-first reading of 01/02/2020 needs).
FormatsDayFirst ==
    << <<"%B", " ", "%d", ",", " ", "%Y">>,
       <<"%d", " ", "%B", ",", " ", "%Y">>,
       <<"%d", "/", "%m", "/", "%Y">>,
       <<"%m", "/", "%d", "/", "%Y">>,
       <<"%m", "-", "%d", "-", "%Y">>,
       <<"%Y", "/", "%m", "/", "%d">>,
       <<"%Y", "-", "%m", "-", "%d">>,
       <<"%d", "-", "%m", "-", "%Y">> >>

\* The layouts in the order the source lists them.  A layout is the
\* sequence of its directives and literal characters.
COMMON_DATE_FORMATS ==
    << <<"%B", " ", "%d", ",", " ", "%Y">>,
       <<"%d", " ", "%B", ",", " ", "%Y">>,
       <<"%m", "/", "%d", "/", "%Y">>,
       <<"%m", "-", "%d", "-", "%Y">>,
       <<"%Y", "/", "%m", "/", "%d">>,
       <<"%Y", "-", "%m", "-", "%d">>,
       <<"%d", "/", "%m", "/", "%Y">>,
       <<"%d", "-", "%m", "-", "%Y">> >>

NoDate == [ok |-> FALSE, Y |-> 0, m |-> 0, d |-> 0]

\* Whether token tok is what directive dir accepts (the directive's regular
\* expression has to take the whole digit run, the next character of every
\* layout being a literal).
DirectiveAccepts(dir, tok) ==
    CASE dir = "%d" -> tok.k = "num" /\ tok.w \in 1..2 /\ tok.v \in 1..31
      [] dir = "%m" -> tok.k = "num" /\ tok.w \in 1..2 /\ tok.v \in 1..12
      [] dir = "%Y" -> tok.k = "num" /\ tok.w = 4
      [] dir = "%B" -> tok.k = "month"
      [] OTHER -> tok.k = dir

\* The end of the run of whitespace that starts at position i.
RECURSIVE SkipSpaces(_, _)
SkipSpaces(s, i) ==
    IF i <= Len(s) /\ IsSpace(s[i]) THEN SkipSpaces(s, i + 1) ELSE i

\* Matching of text s from position i against layout fmt from item j; acc
\* collects the fields.  A blank of the layout takes one or more whitespace
\* characters, every other item one token; the whole text has to be used.
RECURSIVE MatchFormat(_, _, _, _, _)
MatchFormat(s, i, fmt, j, acc) ==
    IF j > Len(fmt) THEN (IF i > Len(s) THEN acc ELSE NoDate)
    ELSE IF i > Len(s) THEN NoDate
    ELSE IF fmt[j] = " "
         THEN IF IsSpace(s[i])
              THEN MatchFormat(s, SkipSpaces(s, i), fmt, j + 1, acc)
              ELSE NoDate
    ELSE IF ~DirectiveAccepts(fmt[j], s[i]) THEN NoDate
    ELSE MatchFormat(s, i + 1, fmt, j + 1,
            CASE fmt[j] = "%d" -> [acc EXCEPT !.d = s[i].v]
              [] fmt[j] \in {"%m", "%B"} -> [acc EXCEPT !.m = s[i].v]
              [] fmt[j] = "%Y" -> [acc EXCEPT !.Y = s[i].v]
              [] OTHER -> acc)

\* datetime.strptime(date_string, fmt): the fields, or NoDate for ValueError
\* (no match, text left over, or a day the month does not have).
strptime(s, fmt) ==
    LET r == MatchFormat(s, 1, fmt, 1, [ok |-> TRUE, Y |-> 0, m |-> 0, d |-> 0])
    IN  IF r.ok /\ r.Y >= 1 /\ r.d <= DaysInMonth(r.Y, r.m) THEN r ELSE NoDate

\* date_object.strftime('%Y-%m-%d')
strftime(dt) == <<Num(dt.Y, 4), Sym("-"), Num(dt.m, 2), Sym("-"), Num(dt.d, 2)>>

RECURSIVE TryFormats(_, _)
TryFormats(s, i) ==
    IF i > Len(COMMON_DATE_FORMATS) THEN PyNone
    ELSE LET dt == strptime(s, COMMON_DATE_FORMATS[i])
         IN  IF dt.ok THEN PyStr(strftime(dt)) ELSE TryFormats(s, i + 1)

robust_date_parser(date_string_) ==
    IF ~Truthy(date_string_) THEN PyNone ELSE TryFormats(date_string_.s, 1)

----------------------------------------------------------------------------
(* clean_numeric_fields *)

RECURSIVE Pow10(_)
Pow10(n) == IF n = 0 THEN 1 ELSE 10 * Pow10(n - 1)

\* str.replace(',', '')
RemoveCommas(s) == SelectSeq(s, LAMBDA tok : tok.k # ",")

\* Digit runs that became adjacent when the commas went are one digit run.
RECURSIVE MergeDigits(_)
MergeDigits(s) ==
    IF Len(s) < 2 THEN s
    ELSE IF s[1].k = "num" /\ s[2].k = "num"
         THEN MergeDigits(<<Num(s[1].v * Pow10(s[2].w) + s[2].v, s[1].w + s[2].w)>>
                          \o SubSeq(s, 3, Len(s)))
         ELSE <<s[1]>> \o MergeDigits(Tail(s))

\* The text without the whitespace at its two ends (float() strips it).
RECURSIVE Strip(_)
Strip(s) ==
    IF s = <<>> THEN s
    ELSE IF IsSpace(s[1]) THEN Strip(Tail(s))
    ELSE IF IsSpace(s[Len(s)]) THEN Strip(SubSeq(s, 1, Len(s) - 1))
    ELSE s

NoFloat == [ok |-> FALSE, x |-> <<0, 0, 0, 0>>]

\* The unsigned decimal literals float() reads: digits, digits ".",
\* digits "." digits, "." digits.
UnsignedFloat(s, sign) ==
    CASE Len(s) = 1 /\ s[1].k = "num" ->
            [ok |-> TRUE, x |-> <<sign, s[1].v, 0, 0>>]
      [] Len(s) = 2 /\ s[1].k = "num" /\ s[2].k = "." ->
            [ok |-> TRUE, x |-> <<sign, s[1].v, 0, 0>>]
      [] Len(s) = 2 /\ s[1].k = "." /\ s[2].k = "num" ->
            [ok |-> TRUE, x |-> <<sign, 0, s[2].v, s[2].w>>]
      [] Len(s) = 3 /\ s[1].k = "num" /\ s[2].k = "." /\ s[3].k = "num" ->
            [ok |-> TRUE, x |-> <<sign, s[1].v, s[3].v, s[3].w>>]
      [] OTHER -> NoFloat

\* float(text): the number, or NoFloat for ValueError.
float(s) ==
    LET body == Strip(MergeDigits(s))
    IN  IF body # <<>> /\ body[1].k = "-"
        THEN UnsignedFloat(Tail(body), 1)
        ELSE UnsignedFloat(body, 0)

\* The new value of one cleaned key:
\*   clean_value_str = str(value).replace(',', '')
\*   float(clean_value_str) if value else None, and None on ValueError.
\* str() of a list or of None is no number.
CleanValue(value) ==
    IF ~Truthy(value) THEN PyNone
    ELSE IF value.t = "float" THEN value
    ELSE IF value.t # "str" THEN PyNone
    ELSE LET r == float(RemoveCommas(value.s))
         IN  IF r.ok THEN PyFloat(r.x) ELSE PyNone

clean_numeric_fields(item_dict, keys_to_clean) ==
    [key \in DOMAIN item_dict |->
        IF key \in keys_to_clean THEN CleanValue(item_dict[key]) ELSE item_dict[key]]

----------------------------------------------------------------------------
(* transform_ai_response *)

\* A raw entity is [type_, mention_text, properties]; a property is
\* [type_, mention_text].  An entity's type_ is a string.  A property's
\* type_ is written as the sequence of its '/'-separated segments
\* ("line_item/quantity" is <<"line_item", "quantity">>), which is what
\* type_.split('/') returns.

BQ_FLAT_COLUMNS ==
    {"supplier_name", "supplier_address", "supplier_email", "supplier_phone",
     "supplier_website", "supplier_tax_id", "supplier_iban",
     "supplier_payment_ref", "supplier_registration", "receiver_name",
     "receiver_address", "receiver_email", "receiver_phone", "receiver_website",
     "receiver_tax_id", "invoice_id", "invoice_date", "due_date",
     "delivery_date", "currency", "currency_exchange_rate", "net_amount",
     "total_tax_amount", "freight_amount", "amount_paid_since_last_invoice",
     "total_amount", "purchase_order", "payment_terms", "carrier",
     "ship_to_name", "ship_to_address", "ship_from_name",
     "ship_from_address", "remit_to_name", "remit_to_address"}

date_keys == {"invoice_date", "due_date", "delivery_date"}

top_level_numeric_keys == {"net_amount", "total_tax_amount", "total_amount", "freight_amount"}

line_item_numeric_keys == {"quantity", "unit_price", "amount"}

vat_numeric_keys == {"tax_rate", "tax_amount", "amount", "total_amount"}

\* The empty dict.
EmptyDict == [key \in {} |-> PyNone]

\* d[key] = value
SetItem(d, key, value) == (key :> value) @@ d

\* prop.type_.split('/')[-1]
LastSegment(segments) == segments[Len(segments)]

\* nested_dict after the loop over entity.properties from property i on.
RECURSIVE NestedDict(_, _, _)
NestedDict(properties, i, nested_dict) ==
    IF i > Len(properties) THEN nested_dict
    ELSE NestedDict(properties, i + 1,
            SetItem(nested_dict, LastSegment(properties[i].type_),
                    PyStr(ReplaceNewlines(properties[i].mention_text))))

\* Whether the flat branch keeps an entity of this type.
KeepsEverything(key) == TRUE

IsFlatColumn(key) == key \in BQ_FLAT_COLUMNS

\* The three containers after the single loop over document.entities from
\* entity i on.
RECURSIVE Classify(_, _, _)
Classify(entities, i, acc) ==
    IF i > Len(entities) THEN acc
    ELSE LET entity == entities[i]
             key == entity.type_
         IN  Classify(entities, i + 1,
                CASE key = "line_item" ->
                        [acc EXCEPT !.parsed_line_items =
                            Append(@, NestedDict(entity.properties, 1, EmptyDict))]
                  [] key = "vat" ->
                        [acc EXCEPT !.parsed_vat =
                            Append(@, NestedDict(entity.properties, 1, EmptyDict))]
                  [] key \notin {"line_item", "vat"} /\ IsFlatColumn(key) ->
                        [acc EXCEPT !.row_to_insert =
                            SetItem(@, key, PyStr(ReplaceNewlines(entity.mention_text)))]
                  [] OTHER -> acc)

\* The row with every date key it holds parsed.
ParseDates(row) ==
    [key \in DOMAIN row |->
        IF key \in date_keys THEN robust_date_parser(row[key]) ELSE row[key]]

CleanItems(items, keys_to_clean) ==
    [i \in 1..Len(items) |-> clean_numeric_fields(items[i], keys_to_clean)]

transform_ai_response(document_) ==
    LET acc == Classify(document_, 1,
                  [row_to_insert |-> EmptyDict, parsed_line_items |-> <<>>,
                   parsed_vat |-> <<>>])
        row1 == SetItem(SetItem(acc.row_to_insert, "line_items",
                                PyList(acc.parsed_line_items)),
                        "vat", PyList(acc.parsed_vat))
        row2 == clean_numeric_fields(ParseDates(row1), top_level_numeric_keys)
        row3 == SetItem(row2, "line_items",
                    PyList(CleanItems(row2["line_items"].items, line_item_numeric_keys)))
    IN  SetItem(row3, "vat", PyList(CleanItems(row3["vat"].items, vat_numeric_keys)))

----------------------------------------------------------------------------
(* parse_pubsub_message *)

\* A path is the sequence of its characters.  str.split('/'):
RECURSIVE Split(_)
Split(s) ==
    IF \A i \in 1..Len(s) : s[i] # "/" THEN <<s>>
    ELSE LET i == CHOOSE i \in 1..Len(s) :
                      s[i] = "/" /\ \A j \in 1..(i - 1) : s[j] # "/"
         IN  <<SubSeq(s, 1, i - 1)>> \o Split(SubSeq(s, i + 1, Len(s)))

\* The text of a path, character by character.
PathText(path) == [i \in 1..Len(path) |-> Sym(path[i])]

\* f"gs://{bucket_name}/{full_gcs_path}"
GcsUri(bucket_name, full_gcs_path) ==
    <<Sym("gs://"), Sym(bucket_name), Sym("/")>> \o PathText(full_gcs_path)

NoJob(raised) ==
    [raised |-> raised, user_id |-> <<>>, filename |-> <<>>, gcs_uri |-> <<>>,
     bucket_name |-> "", full_gcs_path |-> <<>>, event_id |-> "", timestamp |-> ""]

\* The length test with "not fewer than two" in place of "exactly two".
AtLeastTwoParts(parts) == Len(parts) >= 2

\* len(parts) != 2 raises.
PathShapeOk(parts) == Len(parts) = 2

\* The parameter is the object the body reads: has_data_attr says whether it
\* has the attributes data, id and time (a dict has none: AttributeError),
\* decodable whether data["message"]["data"] is base64 of a JSON object with
\* the keys name and bucket (otherwise b64decode, json.loads or the lookup
\* raises, here "DecodeError").
parse_pubsub_message(event) ==
    IF ~event.has_data_attr THEN NoJob("AttributeError")
    ELSE IF ~event.decodable THEN NoJob("DecodeError")
    ELSE LET full_gcs_path == event.name
             bucket_name == event.bucket
             parts == Split(full_gcs_path)
         IN  IF ~PathShapeOk(parts) THEN NoJob("ValueError")
             ELSE [raised |-> "none",
                   user_id |-> parts[1],
                   filename |-> parts[2],
                   gcs_uri |-> GcsUri(bucket_name, full_gcs_path),
                   bucket_name |-> bucket_name,
                   full_gcs_path |-> full_gcs_path,
                   event_id |-> event.id,
                   timestamp |-> event.time]

----------------------------------------------------------------------------
(* Bounds and the inputs drawn within them *)

MaxPathLen == 3

MaxNodes == 2

MaxDeliveries == 2

PathChars == {"u", "f", "/"}

Paths == UNION {[1..n -> PathChars] : n \in 0..MaxPathLen}

\* The objects parse_pubsub_message may be handed.
EventObjects ==
    [has_data_attr : BOOLEAN, decodable : BOOLEAN, name : Paths,
     bucket : {"inv-raw"}, id : {"evt-1"}, time : {"t1"}]

SampleEvent ==
    [has_data_attr |-> TRUE, decodable |-> TRUE, name |-> <<"u", "/", "f">>,
     bucket |-> "inv-raw", id |-> "evt-1", time |-> "t1"]

\* The arguments of process_invoice: an object whose attribute data is what
\* the handler passes on to parse_pubsub_message.  The CloudEvent that
\* functions_framework hands over has the Pub/Sub payload, a dict, as its
\* data (has_data_attr = FALSE); any other caller may pass an object whose
\* data has the attributes data, id and time itself (has_data_attr = TRUE).
Invocations == {[data |-> e] : e \in EventObjects}

Answers == [extract_ok : BOOLEAN, insert_ok : BOOLEAN, copy_ok : BOOLEAN, delete_ok : BOOLEAN]

TextEmpty == <<>>

\* "1,200.00"
TextNumber == <<Num(1, 1), Sym(","), Num(200, 3), Sym("."), Num(0, 2)>>

\* "January\n31, 2016"
TextDate == <<Month(1), Sym("LF"), Num(31, 2), Sym(","), Sym(" "), Num(2016, 4)>>

Texts == {TextEmpty, TextNumber, TextDate}

ScalarTypes ==
    {"supplier_name", "invoice_date", "net_amount", "amount_paid_since_last_invoice",
     "unknown_field"}

PropertyTypes ==
    {<<"line_item", "quantity">>, <<"line_item", "description">>,
     <<"line_item", "product_code">>, <<"vat", "tax_rate">>}

Properties == [type_ : PropertyTypes, mention_text : Texts]

\* The entities of k nodes: a scalar entity or a group without properties
\* is one node, a group with j properties is j + 1 nodes.
EntitiesOfSize(k) ==
    IF k = 1
    THEN [type_ : ScalarTypes, mention_text : Texts, properties : {<<>>}]
         \cup [type_ : {"line_item", "vat"}, mention_text : {TextEmpty}, properties : {<<>>}]
    ELSE [type_ : {"line_item", "vat"}, mention_text : {TextEmpty},
          properties : [1..(k - 1) -> Properties]]

\* The entity sequences of at most n nodes.
RECURSIVE DocsUpTo(_)
DocsUpTo(n) ==
    {<<>>} \cup UNION {{<<e>> \o d : e \in EntitiesOfSize(k), d \in DocsUpTo(n - k)} :
                        k \in 1..n}

\* [{invoice_id: INV-42},
\*  {line_item: [line_item/quantity "3", line_item/amount "1,200.00"]}]
ScenarioA ==
    << [type_ |-> "invoice_id", mention_text |-> <<Sym("x"), Sym("-"), Num(42, 2)>>,
        properties |-> <<>>],
       [type_ |-> "line_item", mention_text |-> <<>>,
        properties |-> << [type_ |-> <<"line_item", "quantity">>,
                           mention_text |-> <<Num(3, 1)>>],
                          [type_ |-> <<"line_item", "amount">>,
                           mention_text |-> TextNumber] >>] >>

\* [{invoice_date: "January 31, 2016"}]
ScenarioB ==
    << [type_ |-> "invoice_date",
        mention_text |-> <<Month(1), Sym(" "), Num(31, 2), Sym(","), Sym(" "), Num(2016, 4)>>,
        properties |-> <<>>] >>

SampleDocuments == {<<>>, ScenarioA, ScenarioB}

DateNumbers ==
    {Num(1, 2), Num(2, 2), Num(2, 1), Num(12, 2), Num(13, 2), Num(29, 2), Num(31, 2),
     Num(0, 2), Num(16, 2), Num(2020, 4), Num(2021, 4)}

DateSeparators == {Sym("/"), Sym("-")}

DateTexts ==
    {<<>>, <<Sym("x")>>}
    \cup {<<a, s1, b, s2, c>> : a \in DateNumbers, s1 \in DateSeparators,
                                b \in DateNumbers, s2 \in DateSeparators, c \in DateNumbers}
    \cup {<<Month(m), sp, d, Sym(","), Sym(" "), y>> :
            m \in {1, 2}, sp \in {Sym(" "), Sym("LF")}, d \in DateNumbers, y \in DateNumbers}
    \cup {<<d, Sym(" "), Month(m), Sym(","), Sym(" "), y>> :
            m \in {1, 2}, d \in DateNumbers, y \in DateNumbers}

DateStrings == {PyNone} \cup {PyStr(s) : s \in DateTexts}

----------------------------------------------------------------------------
(* process_invoice and its collaborators *)

\* One more step of the same kind after a failure (an internal retry).
RetrySameStep(step) == step

\* except Exception: ... raise -- the run ends, the exception reaches the
\* invoker.
except_handler(step) == "FAILED"

\* Whether load_to_bigquery raises for the list insert_rows_json returned,
\* with the errors ignored.
IgnoresErrors(errors) == FALSE

\* if errors: raise RuntimeError
load_raises(errors) == errors # <<>>

\* The archive's two calls, delete first.
DeleteThenCopy == <<"delete", "copy">>

\* archive_file: copy_blob, then source_blob.delete().
archive_file_ops == <<"copy", "delete">>

\* final_row.update({...})
Enriched(row, job) ==
    SetItem(SetItem(SetItem(SetItem(SetItem(row,
        "event_id", PyStr(<<Sym(job.event_id)>>)),
        "source_gcs_path", PyStr(job.gcs_uri)),
        "user_id", PyStr(PathText(job.user_id))),
        "processed_timestamp", PyStr(<<Sym(job.timestamp)>>)),
        "status", PyStr(<<Sym("Pending_Approval")>>))

\* The calls of this run that belong to the archive.
ArchiveCalls == SelectSeq(calls, LAMBDA c : c \in {"copy", "delete"})

Fail(step, e) ==
    /\ pc' = except_handler(step)
    /\ exc' = e

\* Step 1: file_info = parse_pubsub_message(cloud_event.data)
Parse ==
    /\ pc = "start"
    /\ LET r == parse_pubsub_message(cloud_event.data)
       IN  /\ file_info' = r
           /\ IF r.raised = "none"
              THEN pc' = "RECEIVED" /\ exc' = "none" /\ visited' = Append(visited, "RECEIVED")
              ELSE Fail("start", r.raised) /\ UNCHANGED visited
    /\ UNCHANGED <<cloud_event, svc, blob, document, final_row, insert_errors, table,
                   raw_bucket, processed_bucket, calls, deliveries, date_string,
                   date_result>>

\* Step 2: document = process_document_with_ai(file_info["gcs_uri"])
Extract ==
    /\ pc = "RECEIVED"
    /\ calls' = Append(calls, "extract")
    /\ IF svc.extract_ok /\ file_info.full_gcs_path \in raw_bucket
       THEN /\ document' = blob
            /\ pc' = "EXTRACTED"
            /\ visited' = Append(visited, "EXTRACTED")
            /\ UNCHANGED exc
       ELSE Fail("RECEIVED", "GoogleAPICallError") /\ UNCHANGED <<document, visited>>
    /\ UNCHANGED <<cloud_event, svc, blob, file_info, final_row, insert_errors, table,
                   raw_bucket, processed_bucket, deliveries, date_string, date_result>>

\* Step 3: final_row = transform_ai_response(document)
Transform ==
    /\ pc = "EXTRACTED"
    /\ final_row' = transform_ai_response(document)
    /\ pc' = "NORMALIZED"
    /\ visited' = Append(visited, "NORMALIZED")
    /\ UNCHANGED <<cloud_event, svc, blob, file_info, document, insert_errors, exc,
                   table, raw_bucket, processed_bucket, calls, deliveries, date_string,
                   date_result>>

\* Step 4: final_row.update({...})
Enrich ==
    /\ pc = "NORMALIZED"
    /\ final_row' = Enriched(final_row, file_info)
    /\ pc' = "ENRICHED"
    /\ visited' = Append(visited, "ENRICHED")
    /\ UNCHANGED <<cloud_event, svc, blob, file_info, document, insert_errors, exc,
                   table, raw_bucket, processed_bucket, calls, deliveries, date_string,
                   date_result>>

\* Step 5: load_to_bigquery(final_row).  insert_rows_json appends the row
\* and returns [], or appends nothing and returns the errors.
Load ==
    /\ pc = "ENRICHED"
    /\ calls' = Append(calls, "insert")
    /\ LET errors == IF svc.insert_ok THEN <<>> ELSE <<"invalid">>
       IN  /\ table' = IF errors = <<>> THEN Append(table, final_row) ELSE table
           /\ insert_errors' = errors
           /\ IF load_raises(errors)
              THEN Fail("ENRICHED", "RuntimeError") /\ UNCHANGED visited
              ELSE /\ pc' = "PERSISTED"
                   /\ visited' = Append(visited, "PERSISTED")
                   /\ UNCHANGED exc
    /\ UNCHANGED <<cloud_event, svc, blob, file_info, document, final_row, raw_bucket,
                   processed_bucket, deliveries, date_string, date_result>>

\* Step 6: archive_file(bucket_name, full_gcs_path), one call of the blob
\* store at a time.  A call on a blob that is not in the raw bucket fails
\* (NotFound), as does a call the service fails.
Archive ==
    /\ pc \in {"PERSISTED", "ARCHIVING"}
    /\ Len(ArchiveCalls) < Len(archive_file_ops)
    /\ LET k == Len(ArchiveCalls) + 1
           op == archive_file_ops[k]
           path == file_info.full_gcs_path
           ok == /\ path \in raw_bucket
                 /\ IF op = "copy" THEN svc.copy_ok ELSE svc.delete_ok
       IN  /\ calls' = Append(calls, op)
           /\ processed_bucket' = IF ok /\ op = "copy"
                                  THEN processed_bucket \cup {path}
                                  ELSE processed_bucket
           /\ raw_bucket' = IF ok /\ op = "delete" THEN raw_bucket \ {path} ELSE raw_bucket
           /\ IF ~ok
              THEN Fail(pc, "GoogleAPICallError") /\ UNCHANGED visited
              ELSE IF k < Len(archive_file_ops)
              THEN pc' = "ARCHIVING" /\ UNCHANGED <<exc, visited>>
              ELSE /\ pc' = "ARCHIVED"
                   /\ visited' = Append(visited, "ARCHIVED")
                   /\ UNCHANGED exc
    /\ UNCHANGED <<cloud_event, svc, blob, file_info, document, final_row, table,
                   insert_errors, deliveries, date_string, date_result>>

\* The trigger delivers the notification again after a run that raised.
Redeliver ==
    /\ pc = "FAILED"
    /\ deliveries < MaxDeliveries
    /\ deliveries' = deliveries + 1
    /\ pc' = "start"
    /\ exc' = "none"
    /\ svc' \in Answers
    /\ file_info' = NoJob("none")
    /\ document' = <<>>
    /\ final_row' = EmptyDict
    /\ insert_errors' = <<>>
    /\ visited' = <<>>
    /\ calls' = <<>>
    /\ UNCHANGED <<cloud_event, blob, table, raw_bucket, processed_bucket, date_string,
                   date_result>>

\* process_invoice is invoked with a notification for a blob of the raw
\* bucket.
Init ==
    /\ pc = "start"
    /\ cloud_event \in Invocations
    /\ svc \in Answers
    /\ blob \in SampleDocuments
    /\ file_info = NoJob("none")
    /\ document = <<>>
    /\ final_row = EmptyDict
    /\ insert_errors = <<>>
    /\ exc = "none"
    /\ table = <<>>
    /\ raw_bucket = {cloud_event.data.name}
    /\ processed_bucket = {}
    /\ visited = <<>>
    /\ calls = <<>>
    /\ deliveries = 1
    /\ date_string = PyNone
    /\ date_result = PyNone

Next ==
    \/ Parse
    \/ Extract
    \/ Transform
    \/ Enrich
    \/ Load
    \/ Archive
    \/ Redeliver

Spec == Init /\ [][Next]_vars

----------------------------------------------------------------------------
(* transform_ai_response and the enrichment on their own *)

InitTransform ==
    /\ pc = "EXTRACTED"
    /\ cloud_event = [data |-> SampleEvent]
    /\ svc = [extract_ok |-> TRUE, insert_ok |-> TRUE, copy_ok |-> TRUE, delete_ok |-> TRUE]
    /\ blob \in DocsUpTo(MaxNodes)
    /\ file_info = parse_pubsub_message(SampleEvent)
    /\ document = blob
    /\ final_row = EmptyDict
    /\ insert_errors = <<>>
    /\ exc = "none"
    /\ table = <<>>
    /\ raw_bucket = {SampleEvent.name}
    /\ processed_bucket = {}
    /\ visited = <<"RECEIVED", "EXTRACTED">>
    /\ calls = <<"extract">>
    /\ deliveries = 1
    /\ date_string = PyNone
    /\ date_result = PyNone

NextTransform ==
    \/ Transform
    \/ Enrich

SpecTransform == InitTransform /\ [][NextTransform]_vars

----------------------------------------------------------------------------
(* parse_pubsub_message on its own *)

CallParse ==
    /\ pc = "call"
    /\ file_info' = parse_pubsub_message(cloud_event)
    /\ pc' = "return"
    /\ UNCHANGED <<cloud_event, svc, blob, document, final_row, insert_errors, exc, table,
                   raw_bucket, processed_bucket, visited, calls, deliveries, date_string,
                   date_result>>

InitParse ==
    /\ pc = "call"
    /\ cloud_event \in EventObjects
    /\ svc = [extract_ok |-> TRUE, insert_ok |-> TRUE, copy_ok |-> TRUE, delete_ok |-> TRUE]
    /\ blob = <<>>
    /\ file_info = NoJob("none")
    /\ document = <<>>
    /\ final_row = EmptyDict
    /\ insert_errors = <<>>
    /\ exc = "none"
    /\ table = <<>>
    /\ raw_bucket = {}
    /\ processed_bucket = {}
    /\ visited = <<>>
    /\ calls = <<>>
    /\ deliveries = 1
    /\ date_string = PyNone
    /\ date_result = PyNone

NextParse == CallParse

SpecParse == InitParse /\ [][NextParse]_vars

----------------------------------------------------------------------------
(* robust_date_parser on its own *)

CallDateParser ==
    /\ pc = "call"
    /\ date_result' = robust_date_parser(date_string)
    /\ pc' = "return"
    /\ UNCHANGED <<cloud_event, svc, blob, file_info, document, final_row, insert_errors,
                   exc, table, raw_bucket, processed_bucket, visited, calls, deliveries,
                   date_string>>

InitDate ==
    /\ pc = "call"
    /\ date_string \in DateStrings
    /\ date_result = PyNone
    /\ cloud_event = [data |-> SampleEvent]
    /\ svc = [extract_ok |-> TRUE, insert_ok |-> TRUE, copy_ok |-> TRUE, delete_ok |-> TRUE]
    /\ blob = <<>>
    /\ file_info = NoJob("none")
    /\ document = <<>>
    /\ final_row = EmptyDict
    /\ insert_errors = <<>>
    /\ exc = "none"
    /\ table = <<>>
    /\ raw_bucket = {}
    /\ processed_bucket = {}
    /\ visited = <<>>
    /\ calls = <<>>
    /\ deliveries = 1

NextDate == CallDateParser

SpecDate == InitDate /\ [][NextDate]_vars

----------------------------------------------------------------------------
(* Properties *)

SepCount(path) == Cardinality({i \in 1..Len(path) : path[i] = "/"})

Has(seq, x) == \E i \in 1..Len(seq) : seq[i] = x

IsPrefix(s, full) == Len(s) <= Len(full) /\ s = SubSeq(full, 1, Len(s))

PipelineStates == <<"RECEIVED", "EXTRACTED", "NORMALIZED", "ENRICHED", "PERSISTED", "ARCHIVED">>

PipelineCalls == <<"extract", "insert", "copy", "delete">>

JobPath == cloud_event.data.name

\* The notification carries a path that parse_pubsub_message gets to see.
CarriesPath == cloud_event.data.decodable

RunOver == pc \in {"ARCHIVED", "FAILED"}

\* C1: the archive (copy, delete) is called only after the insert of the
\* same run returned no errors; when the insert returned errors the archive
\* is not called and the blob stays in the raw bucket; every blob of the
\* processed bucket has a row in the table.
C1_ArchiveOnlyAfterInsert ==
    /\ \A i \in 1..Len(calls) :
          calls[i] \in {"copy", "delete"} =>
              /\ \E j \in 1..(i - 1) : calls[j] = "insert"
              /\ insert_errors = <<>>
    /\ (Has(calls, "insert") /\ insert_errors # <<>>) =>
          /\ ~Has(calls, "copy")
          /\ ~Has(calls, "delete")
          /\ JobPath \in raw_bucket
    /\ \A path \in processed_bucket :
          \E i \in 1..Len(table) :
              table[i]["source_gcs_path"] = PyStr(GcsUri(cloud_event.data.bucket, path))

\* A second delivery whose insert reported errors, after a first delivery
\* that inserted and copied the blob.
C1_Witness ==
    /\ pc = "FAILED"
    /\ insert_errors # <<>>
    /\ calls = <<"extract", "insert">>
    /\ processed_bucket # {}

\* C2 as stated: a notification whose path is not owner_id/filename is
\* dropped without a failure signalled to the invoker, and extraction is
\* never called for it.
C2_Original ==
    (CarriesPath /\ SepCount(JobPath) # 1 /\ pc # "start") =>
        /\ exc = "none"
        /\ ~Has(calls, "extract")

\* C2 as the code has it: a notification whose path is not
\* owner_id/filename ends the run at the first step with the exception
\* raised to the invoker (ValueError whenever the payload could be read),
\* no pipeline state reached and no collaborator called.
C2_RejectedAndPropagated ==
    (CarriesPath /\ SepCount(JobPath) # 1 /\ pc # "start") =>
        /\ pc = "FAILED"
        /\ exc \in {"ValueError", "AttributeError"}
        /\ cloud_event.data.has_data_attr => exc = "ValueError"
        /\ visited = <<>>
        /\ calls = <<>>

\* A path of three segments was rejected and is delivered a second time.
C2_Witness ==
    /\ CarriesPath
    /\ SepCount(JobPath) = 2
    /\ pc = "FAILED"
    /\ exc = "ValueError"
    /\ deliveries = 2

\* C3: for a notification with a valid two-segment path, with extraction,
\* insert, copy and delete all succeeding, the run passes RECEIVED,
\* EXTRACTED, NORMALIZED, ENRICHED, PERSISTED in that order, no state twice,
\* and ends in ARCHIVED with no failure raised.
C3_Claim ==
    (/\ CarriesPath
     /\ SepCount(JobPath) = 1
     /\ svc.extract_ok /\ svc.insert_ok /\ svc.copy_ok /\ svc.delete_ok) =>
        /\ IsPrefix(visited, PipelineStates)
        /\ RunOver => /\ pc = "ARCHIVED"
                      /\ exc = "none"
                      /\ visited = PipelineStates

\* C4: when a collaborator fails the run ends there with the failure
\* raised to the invoker: no later step is called, and no collaborator is
\* called twice in one run.
C4_FailureEndsRun ==
    /\ IsPrefix(calls, PipelineCalls)
    /\ \A i, j \in 1..Len(calls) : calls[i] = calls[j] => i = j
    /\ pc = "FAILED" => exc # "none"
    /\ (Has(calls, "extract") /\ ~svc.extract_ok) =>
          pc = "FAILED" /\ calls = <<"extract">>
    /\ (Has(calls, "insert") /\ ~svc.insert_ok) =>
          pc = "FAILED" /\ calls = <<"extract", "insert">>
    /\ (Has(calls, "copy") /\ ~svc.copy_ok) =>
          pc = "FAILED" /\ calls = <<"extract", "insert", "copy">>
    /\ (Has(calls, "delete") /\ ~svc.delete_ok) =>
          pc = "FAILED" /\ calls = PipelineCalls

\* The extraction failed: the run is over, nothing else was called.
C4_Witness ==
    /\ pc = "FAILED"
    /\ ~svc.extract_ok
    /\ calls = <<"extract">>
    /\ exc = "GoogleAPICallError"
    /\ table = <<>>

AuthoritativeColumns ==
    BQ_FLAT_COLUMNS
    \cup {"line_items", "vat"}
    \cup {"event_id", "source_gcs_path", "user_id", "processed_timestamp", "status"}

LineItemKeys == {"description", "quantity", "unit_price", "amount"}

VatLineKeys == {"tax_rate", "tax_amount", "amount", "total_amount"}

RowReady == pc \in {"NORMALIZED", "ENRICHED"}

\* C5: every key of the row handed to the insert is an authoritative
\* column, and every element of line_items / vat has keys of the LineItem /
\* VatLine sub-schema only.
C5_Claim ==
    RowReady =>
        /\ DOMAIN final_row \subseteq AuthoritativeColumns
        /\ \A i \in 1..Len(final_row["line_items"].items) :
              DOMAIN final_row["line_items"].items[i] \subseteq LineItemKeys
        /\ \A i \in 1..Len(final_row["vat"].items) :
              DOMAIN final_row["vat"].items[i] \subseteq VatLineKeys

\* The entities of the document whose type is column.
EntitiesOf(column) == {i \in 1..Len(document) : document[i].type_ = column}

\* The text of the last of them.
LastTextOf(column) ==
    document[CHOOSE i \in EntitiesOf(column) : \A j \in EntitiesOf(column) : j <= i].mention_text

\* C6 as stated: the keys of the produced row are exactly the column set,
\* and no column holds the empty string.
C6_Original ==
    RowReady =>
        /\ BQ_FLAT_COLUMNS \cup {"line_items", "vat"} \subseteq DOMAIN final_row
        /\ DOMAIN final_row \subseteq AuthoritativeColumns
        /\ \A key \in DOMAIN final_row : final_row[key] # PyStr(<<>>)

\* C6 as the code has it: the keys of the produced row are columns of the
\* set, line_items and vat always among them; a flat column is a key of the
\* row exactly when an entity of that type appeared; a date column or a
\* cleaned numeric column returned with empty text holds None, any other
\* column returned with empty text holds the empty string.
C6_KeysOfTheRow ==
    RowReady =>
        /\ DOMAIN final_row \subseteq AuthoritativeColumns
        /\ {"line_items", "vat"} \subseteq DOMAIN final_row
        /\ \A column \in BQ_FLAT_COLUMNS :
              /\ column \in DOMAIN final_row <=> EntitiesOf(column) # {}
              /\ (EntitiesOf(column) # {} /\ LastTextOf(column) = <<>>) =>
                    final_row[column] =
                        IF column \in date_keys \cup top_level_numeric_keys
                        THEN PyNone
                        ELSE PyStr(<<>>)

\* supplier_name and net_amount came back with empty text, invoice_date
\* never appeared.
C6_Witness ==
    /\ pc = "NORMALIZED"
    /\ Len(document) = 2
    /\ "supplier_name" \in DOMAIN final_row
    /\ final_row["supplier_name"] = PyStr(<<>>)
    /\ "net_amount" \in DOMAIN final_row
    /\ final_row["net_amount"] = PyNone
    /\ "invoice_date" \notin DOMAIN final_row

IsFloatOrNone(value) == value.t \in {"float", "null"}

\* A YYYY-MM-DD string.
IsIsoDate(value) ==
    /\ value.t = "str"
    /\ Len(value.s) = 5
    /\ value.s[1].k = "num" /\ value.s[1].w = 4
    /\ value.s[2].k = "-"
    /\ value.s[3].k = "num" /\ value.s[3].w = 2 /\ value.s[3].v \in 1..12
    /\ value.s[4].k = "-"
    /\ value.s[5].k = "num" /\ value.s[5].w = 2 /\ value.s[5].v \in 1..31

\* The top-level columns that hold an amount.
AmountColumns ==
    {"net_amount", "total_tax_amount", "freight_amount",
     "amount_paid_since_last_invoice", "total_amount"}

\* C7: every amount column of the row, and quantity, unit_price, amount,
\* tax_rate, tax_amount, total_amount inside line_items and vat, holds a
\* float or None; every date column holds a YYYY-MM-DD string or None.
C7_Claim ==
    RowReady =>
        /\ \A key \in DOMAIN final_row \cap AmountColumns : IsFloatOrNone(final_row[key])
        /\ \A i \in 1..Len(final_row["line_items"].items) :
              LET item == final_row["line_items"].items[i]
              IN  \A key \in DOMAIN item \cap {"quantity", "unit_price", "amount"} :
                      IsFloatOrNone(item[key])
        /\ \A i \in 1..Len(final_row["vat"].items) :
              LET item == final_row["vat"].items[i]
              IN  \A key \in DOMAIN item \cap VatLineKeys : IsFloatOrNone(item[key])
        /\ \A key \in DOMAIN final_row \cap date_keys :
              final_row[key] = PyNone \/ IsIsoDate(final_row[key])

ReadableEvent == cloud_event.has_data_attr /\ cloud_event.decodable

\* C8: parse_pubsub_message accepts a path exactly when it has exactly one
\* '/', and then the owner is the text before it and the filename the text
\* after it; every other path fails validation and gives no job.
C8_ParseExactlyTwoSegments ==
    (pc = "return" /\ ReadableEvent) =>
        /\ file_info.raised = "none" <=> SepCount(cloud_event.name) = 1
        /\ file_info.raised = "none" =>
              /\ file_info.user_id \o <<"/">> \o file_info.filename = cloud_event.name
              /\ SepCount(file_info.user_id) = 0
              /\ SepCount(file_info.filename) = 0
              /\ file_info.full_gcs_path = cloud_event.name
        /\ file_info.raised # "none" =>
              /\ file_info.raised = "ValueError"
              /\ file_info = NoJob("ValueError")

\* u/f is accepted: owner u, filename f.
C8_Witness ==
    /\ pc = "return"
    /\ ReadableEvent
    /\ cloud_event.name = <<"u", "/", "f">>
    /\ file_info.raised = "none"
    /\ file_info.user_id = <<"u">>
    /\ file_info.filename = <<"f">>

\* C9: the delete is called only after the copy completed, the blob is in
\* the raw bucket or in the processed bucket in every state, and the run
\* ends archived, without failure, only when both calls completed.
C9_CopyThenDelete ==
    /\ \A i \in 1..Len(calls) :
          calls[i] = "delete" =>
              /\ \E j \in 1..(i - 1) : calls[j] = "copy"
              /\ svc.copy_ok
              /\ JobPath \in processed_bucket
    /\ JobPath \in raw_bucket \cup processed_bucket
    /\ pc = "ARCHIVED" =>
          /\ exc = "none"
          /\ svc.copy_ok /\ svc.delete_ok
          /\ calls = PipelineCalls
          /\ JobPath \in processed_bucket
          /\ JobPath \notin raw_bucket
    /\ (Has(calls, "copy") /\ ~svc.copy_ok) =>
          pc = "FAILED" /\ ~Has(calls, "delete") /\ JobPath \in raw_bucket
    /\ (Has(calls, "delete") /\ ~svc.delete_ok) => pc = "FAILED" /\ JobPath \in raw_bucket

\* The delete failed after the copy: the blob is in both buckets and the
\* run has failed.
C9_Witness ==
    /\ pc = "FAILED"
    /\ calls = PipelineCalls
    /\ JobPath \in raw_bucket
    /\ JobPath \in processed_bucket
    /\ deliveries = 1

\* The result of trying the layouts of order in turn: the first that
\* parses, as YYYY-MM-DD.
FirstParse(value, order) ==
    LET hits == {i \in 1..Len(order) : strptime(value.s, order[i]).ok}
    IN  IF ~Truthy(value) \/ hits = {} THEN PyNone
        ELSE PyStr(strftime(strptime(value.s,
                 order[CHOOSE i \in hits : \A j \in hits : i <= j])))

\* month-name day-comma-year, D/M/Y, M/D/Y, Y-M-D, M-D-Y, D-M-Y
OrderClaimed ==
    << <<"%B", " ", "%d", ",", " ", "%Y">>,
       <<"%d", "/", "%m", "/", "%Y">>,
       <<"%m", "/", "%d", "/", "%Y">>,
       <<"%Y", "-", "%m", "-", "%d">>,
       <<"%m", "-", "%d", "-", "%Y">>,
       <<"%d", "-", "%m", "-", "%Y">> >>

\* month-name day-comma-year, day month-name-comma-year, M/D/Y, M-D-Y,
\* Y/M/D, Y-M-D, D/M/Y, D-M-Y
OrderAmended ==
    << <<"%B", " ", "%d", ",", " ", "%Y">>,
       <<"%d", " ", "%B", ",", " ", "%Y">>,
       <<"%m", "/", "%d", "/", "%Y">>,
       <<"%m", "-", "%d", "-", "%Y">>,
       <<"%Y", "/", "%m", "/", "%d">>,
       <<"%Y", "-", "%m", "-", "%d">>,
       <<"%d", "/", "%m", "/", "%Y">>,
       <<"%d", "-", "%m", "-", "%Y">> >>

\* "01/02/2020"
Text01022020 == <<Num(1, 2), Sym("/"), Num(2, 2), Sym("/"), Num(2020, 4)>>

IsoDate(y, m, d) == PyStr(<<Num(y, 4), Sym("-"), Num(m, 2), Sym("-"), Num(d, 2)>>)

\* C10 as stated: the result is that of the first layout that parses in
\* the order month-name, D/M/Y, M/D/Y, Y-M-D, M-D-Y, D-M-Y, so 01/02/2020 is
\* read day-first.
C10_Original ==
    pc = "return" =>
        /\ date_result = FirstParse(date_string, OrderClaimed)
        /\ date_string = PyStr(Text01022020) => date_result = IsoDate(2020, 2, 1)

\* C10 as the code has it: the result is that of the first layout that
\* parses in the order month-name day, day month-name, M/D/Y, M-D-Y, Y/M/D,
\* Y-M-D, D/M/Y, D-M-Y, so 01/02/2020 is read month-first.
C10_FirstLayoutWins ==
    pc = "return" =>
        /\ date_result = FirstParse(date_string, OrderAmended)
        /\ date_string = PyStr(Text01022020) => date_result = IsoDate(2020, 1, 2)

\* 01/02/2020 gave 2020-01-02.
C10_Witness ==
    /\ pc = "return"
    /\ date_string = PyStr(Text01022020)
    /\ date_result = IsoDate(2020, 1, 2)

====
